---- MODULE Spec2Model ----
(***************************************************************************)
(* A model of DoubaoTiku (src/api/tiku.py; src/api/answer.py holds the     *)
(* same class without query, get_submit_params and judgement_select).      *)
(*                                                                         *)
(* Text is modelled as a sequence of characters, each character a one-     *)
(* token string, so that strip, replace, split, join, the substring test   *)
(* and json.loads are computed the way Python computes them.               *)
(* Time is an integer clock (time.time()), which only moves forward.       *)
(***************************************************************************)
EXTENDS Integers, Sequences, FiniteSets, TLC

\* ------------------------------------------------------------- bounds
\* The last instant of the clock.
MaxTime == 4
\* The number of answer_question calls made on the client.
MaxCalls == 2
\* The longest Answer list the gateway sends.
MaxAnswers == 2
\* time.time() when the client is constructed (seconds since the epoch,
\* so it is positive).
StartTime == 1

\* ---------------------------------------------------------- characters
Quote == "\""
Backslash == "\\"
NL == "\n"
TAB == "\t"
CR == "\r"
SP == " "
\* U+0060 GRAVE ACCENT, the character of a Markdown fence.
BT == "grave"
\* U+3000 IDEOGRAPHIC SPACE: whitespace for str.strip(), not for JSON.
IDSP == "u3000"

\* What str.strip() removes (the characters with str.isspace()).
PyWhitespace == {SP, NL, TAB, CR, IDSP}
\* What json.loads skips between tokens.
JsonWhitespace == {SP, NL, TAB, CR}
\* Raw control characters, which json.loads refuses inside a string.
ControlChars == {NL, TAB, CR}

\* The two markers _clean_response deletes.
FenceJson == <<BT, BT, BT, "j", "s", "o", "n">>
Fence == <<BT, BT, BT>>
\* The key answer_question reads.
AnswerKey == <<"A", "n", "s", "w", "e", "r">>

\* ------------------------------------------------- Python's str methods
RECURSIVE LStrip(_)
LStrip(s) ==
    IF s # <<>> /\ Head(s) \in PyWhitespace THEN LStrip(Tail(s)) ELSE s

RECURSIVE RStrip(_)
RStrip(s) ==
    IF s # <<>> /\ s[Len(s)] \in PyWhitespace
    THEN RStrip(SubSeq(s, 1, Len(s) - 1))
    ELSE s

\* str.strip()
Strip(s) == RStrip(LStrip(s))

\* s[i:].startswith(pat), i counted from 1
StartsWithAt(s, pat, i) ==
    /\ i + Len(pat) - 1 <= Len(s)
    /\ \A k \in 1..Len(pat) : s[i + k - 1] = pat[k]

\* str.replace(old, ''): the leftmost occurrences, not overlapping
RECURSIVE ReplaceFrom(_, _, _)
ReplaceFrom(s, old, i) ==
    IF i > Len(s) THEN <<>>
    ELSE IF StartsWithAt(s, old, i) THEN ReplaceFrom(s, old, i + Len(old))
    ELSE <<s[i]>> \o ReplaceFrom(s, old, i + 1)

Replace(s, old) == ReplaceFrom(s, old, 1)

\* sub in s
Contains(s, sub) == \E i \in 1..(Len(s) + 1) : StartsWithAt(s, sub, i)

\* str.split(sep) for a one-character sep
RECURSIVE SplitFrom(_, _, _, _)
SplitFrom(s, sep, i, cur) ==
    IF i > Len(s) THEN <<cur>>
    ELSE IF s[i] = sep THEN <<cur>> \o SplitFrom(s, sep, i + 1, <<>>)
    ELSE SplitFrom(s, sep, i + 1, Append(cur, s[i]))

Split(s, sep) == SplitFrom(s, sep, 1, <<>>)

\* sep.join(list)
\* (a join that forgets the separator)
RECURSIVE JoinNoSeparator(_, _)
JoinNoSeparator(list, sep) ==
    IF list = <<>> THEN <<>> ELSE Head(list) \o JoinNoSeparator(Tail(list), sep)

RECURSIVE Join(_, _)
Join(list, sep) ==
    IF list = <<>> THEN <<>>
    ELSE IF Len(list) = 1 THEN list[1]
    ELSE list[1] \o sep \o Join(Tail(list), sep)

\* [f(x) for x in list] with f = str.strip
StripAll(list) == [i \in 1..Len(list) |-> Strip(list[i])]

\* ------------------------------------------------------ _clean_response
CleanResponse(content) == Replace(Replace(Strip(content), FenceJson), Fence)

\* ------------------------------------------------------------ json.loads
\* A JSON value: t is "str" (s its text), "arr" (items its elements) or
\* "obj" (keys and items its members, in order).
JStr(s) == [t |-> "str", s |-> s, keys |-> <<>>, items |-> <<>>]
JArr(items) == [t |-> "arr", s |-> <<>>, keys |-> <<>>, items |-> items]
JObj(keys, items) == [t |-> "obj", s |-> <<>>, keys |-> keys, items |-> items]

\* A parse step: ok, the value read, and the position after it.
ParseFail == [ok |-> FALSE, v |-> JStr(<<>>), i |-> 0]
ParseOk(v, i) == [ok |-> TRUE, v |-> v, i |-> i]

RECURSIVE SkipWS(_, _)
SkipWS(s, i) ==
    IF i <= Len(s) /\ s[i] \in JsonWhitespace THEN SkipWS(s, i + 1) ELSE i

\* The escapes of a JSON string that the modelled text uses.
Escapable == {"n", "t", "r", Quote, Backslash}
Unescape(ch) ==
    CASE ch = "n" -> NL
      [] ch = "t" -> TAB
      [] ch = "r" -> CR
      [] OTHER -> ch

\* A string, from the character after its opening quote.
RECURSIVE ScanString(_, _, _)
ScanString(s, i, acc) ==
    IF i > Len(s) THEN ParseFail
    ELSE IF s[i] = Quote THEN ParseOk(JStr(acc), i + 1)
    ELSE IF s[i] = Backslash THEN
        IF i + 1 <= Len(s) /\ s[i + 1] \in Escapable
        THEN ScanString(s, i + 2, Append(acc, Unescape(s[i + 1])))
        ELSE ParseFail
    ELSE IF s[i] \in ControlChars THEN ParseFail
    ELSE ScanString(s, i + 1, Append(acc, s[i]))

RECURSIVE ParseValue(_, _)
RECURSIVE ParseItems(_, _, _)
RECURSIVE ParseMembers(_, _, _, _)

\* A value starting at i (whitespace already skipped).  The modelled text
\* holds no digits and no true/false/null, so those are not read.
ParseValue(s, i) ==
    IF i > Len(s) THEN ParseFail
    ELSE IF s[i] = Quote THEN ScanString(s, i + 1, <<>>)
    ELSE IF s[i] = "[" THEN
        LET j == SkipWS(s, i + 1) IN
        IF j <= Len(s) /\ s[j] = "]" THEN ParseOk(JArr(<<>>), j + 1)
        ELSE ParseItems(s, j, <<>>)
    ELSE IF s[i] = "{" THEN
        LET j == SkipWS(s, i + 1) IN
        IF j <= Len(s) /\ s[j] = "}" THEN ParseOk(JObj(<<>>, <<>>), j + 1)
        ELSE ParseMembers(s, j, <<>>, <<>>)
    ELSE ParseFail

\* The elements of an array, from the start of an element.
ParseItems(s, i, acc) ==
    LET r == ParseValue(s, i) IN
    IF ~r.ok THEN ParseFail
    ELSE LET j == SkipWS(s, r.i) IN
         IF j > Len(s) THEN ParseFail
         ELSE IF s[j] = "," THEN ParseItems(s, SkipWS(s, j + 1), Append(acc, r.v))
         ELSE IF s[j] = "]" THEN ParseOk(JArr(Append(acc, r.v)), j + 1)
         ELSE ParseFail

\* The members of an object, from the start of a key.
ParseMembers(s, i, ks, vs) ==
    IF i > Len(s) \/ s[i] # Quote THEN ParseFail
    ELSE LET k == ScanString(s, i + 1, <<>>) IN
         IF ~k.ok THEN ParseFail
         ELSE LET j == SkipWS(s, k.i) IN
              IF j > Len(s) \/ s[j] # ":" THEN ParseFail
              ELSE LET r == ParseValue(s, SkipWS(s, j + 1)) IN
                   IF ~r.ok THEN ParseFail
                   ELSE LET m == SkipWS(s, r.i) IN
                        IF m > Len(s) THEN ParseFail
                        ELSE IF s[m] = ","
                        THEN ParseMembers(s, SkipWS(s, m + 1),
                                          Append(ks, k.v.s), Append(vs, r.v))
                        ELSE IF s[m] = "}"
                        THEN ParseOk(JObj(Append(ks, k.v.s), Append(vs, r.v)), m + 1)
                        ELSE ParseFail

\* json.loads(s): ok is FALSE where it raises JSONDecodeError.
JsonLoads(s) ==
    LET r == ParseValue(s, SkipWS(s, 1)) IN
    IF r.ok /\ SkipWS(s, r.i) = Len(s) + 1 THEN r ELSE ParseFail

\* dict.get(key, default): the last member with that key wins.
DictGet(obj, key, default) ==
    LET hits == {i \in 1..Len(obj.keys) : obj.keys[i] = key} IN
    IF hits = {} THEN default
    ELSE obj.items[CHOOSE i \in hits : \A k \in hits : k <= i]

\* bool(value) for a parsed value
TruthyJson(v) ==
    CASE v.t = "str" -> v.s # <<>>
      [] v.t = "arr" -> v.items # <<>>
      [] OTHER -> v.keys # <<>>

\* What "\n".join(value) iterates over, when every element is a string.
JoinParts(v) ==
    CASE v.t = "str" -> [i \in 1..Len(v.s) |-> <<v.s[i]>>]
      [] v.t = "arr" -> [i \in 1..Len(v.items) |-> v.items[i].s]
      [] OTHER -> v.keys

\* "\n".join(value) raises TypeError on an element that is not a string.
Joinable(v) ==
    v.t = "arr" => \A i \in 1..Len(v.items) : v.items[i].t = "str"


\* ---------------------------------------------------------- the values
\* An optional string: None, or a string s.
None == [ok |-> FALSE, s |-> <<>>]
Some(s) == [ok |-> TRUE, s |-> s]

\* self.last_request_time = None
NoTime == -1

\* What a block of code ends with: a value returned, or an exception.
Return(v) == [exc |-> "none", val |-> v]
Raise(e) == [exc |-> e, val |-> None]

\* --------------------------------------------------------- config.ini
\* An option the file does not hold.
Missing == "<missing>"

\* The configuration files the client is constructed from: whether the file
\* can be read, and the [tiku] options' texts.
Configs ==
    [file : BOOLEAN,
     doubao_api_key : {Missing, "", "key"},
     doubao_min_interval : {Missing, "0", "2", "x"},
     submit : {Missing, "yes", "false", "maybe"}]

\* int(text): the integer, or ValueError.
IsIntText(text) == text \in {"0", "1", "2"}
IntOf(text) == CASE text = "0" -> 0 [] text = "1" -> 1 [] OTHER -> 2

\* ConfigParser.getboolean's texts (RawConfigParser.BOOLEAN_STATES).
TrueTexts == {"1", "yes", "true", "on"}
FalseTexts == {"0", "no", "false", "off"}

\* The fallbacks of true_list and false_list, as written in the source:
\* zheng que , dui , check-mark , shi
DefaultTrueText ==
    <<"zheng", "que", ",", "dui", ",", "check", ",", "shi">>
\* cuo wu , cross , fou , bu dui , bu zheng que
DefaultFalseText ==
    <<"cuo", "wu", ",", "cross", ",", "fou", ",", "bu", "dui", ",",
      "bu", "zheng", "que">>

\* [item.strip() for item in text.split(',')]
SynonymList(text) == StripAll(Split(text, ","))

\* ------------------------------------------------------- construction
\* _init_client: the attributes it sets and the exception it ends with.
\* (a client created before the key is validated)
InitClientCheckLast(conf) ==
    IF conf.doubao_api_key = Missing
    THEN [exc |-> "NoOptionError", client |-> FALSE, min_interval |-> 0]
    ELSE IF conf.doubao_min_interval # Missing /\ ~IsIntText(conf.doubao_min_interval)
    THEN [exc |-> "ValueError", client |-> FALSE, min_interval |-> 0]
    ELSE LET mi == IF conf.doubao_min_interval = Missing THEN 1
                   ELSE IntOf(conf.doubao_min_interval) IN
         IF conf.doubao_api_key = ""
         THEN [exc |-> "ValueError", client |-> TRUE, min_interval |-> mi]
         ELSE [exc |-> "none", client |-> TRUE, min_interval |-> mi]

InitClient(conf) ==
    IF conf.doubao_api_key = Missing
    THEN [exc |-> "NoOptionError", client |-> FALSE, min_interval |-> 0]
    ELSE IF conf.doubao_min_interval # Missing /\ ~IsIntText(conf.doubao_min_interval)
    THEN [exc |-> "ValueError", client |-> FALSE, min_interval |-> 0]
    ELSE LET mi == IF conf.doubao_min_interval = Missing THEN 1
                   ELSE IntOf(conf.doubao_min_interval) IN
         IF conf.doubao_api_key = ""
         THEN [exc |-> "ValueError", client |-> FALSE, min_interval |-> mi]
         ELSE [exc |-> "none", client |-> TRUE, min_interval |-> mi]

\* _load_business_config: submit, and the exception getboolean ends with.
LoadBusinessConfig(conf) ==
    IF conf.submit = Missing THEN [exc |-> "none", submit |-> TRUE]
    ELSE IF conf.submit \in TrueTexts THEN [exc |-> "none", submit |-> TRUE]
    ELSE IF conf.submit \in FalseTexts THEN [exc |-> "none", submit |-> FALSE]
    ELSE [exc |-> "ValueError", submit |-> TRUE]

\* __init__: the exception it ends with ("none": the client is constructed),
\* whether openai.OpenAI was created, and the attributes.
DoInit(conf) ==
    IF ~conf.file
    THEN [exc |-> "FileNotFoundError", client |-> FALSE, min_interval |-> 0,
          submit |-> TRUE]
    ELSE LET c == InitClient(conf) IN
         IF c.exc # "none"
         THEN [exc |-> c.exc, client |-> c.client,
               min_interval |-> c.min_interval, submit |-> TRUE]
         ELSE LET b == LoadBusinessConfig(conf) IN
              [exc |-> b.exc, client |-> c.client,
               min_interval |-> c.min_interval, submit |-> b.submit]


\* ------------------------------------------------ the gateway's replies
\* A reply of the gateway: its kind, the Answer strings of an "answer"
\* reply, the whitespace around the JSON text, and whether the whole
\* content is wrapped in a Markdown fence.
AnswerStrings ==
    { <<>>, <<"a">>, <<"b", SP>>, <<"a", BT, BT, BT>>, <<NL>> }

AnswerLists == UNION { [1..n -> AnswerStrings] : n \in 0..MaxAnswers }

Pads == {"none", "space", "ideographic"}
Fences == {"none", "fenced"}

RaiseSeed == [kind |-> "raise", answers |-> <<>>, pad |-> "none", fence |-> "none"]
NoSeed == [kind |-> "none", answers |-> <<>>, pad |-> "none", fence |-> "none"]

Seeds ==
    {RaiseSeed}
    \cup [kind : {"answer"}, answers : AnswerLists, pad : Pads, fence : Fences]
    \cup [kind : {"noanswer", "array", "text", "truncated"}, answers : {<<>>},
          pad : Pads, fence : Fences]

\* The replies used where two threads call at once: one that raises and
\* one that answers.
FewSeeds ==
    {RaiseSeed,
     [kind |-> "answer", answers |-> << <<"a">> >>, pad |-> "none", fence |-> "none"]}

\* A string as JSON text.
RECURSIVE EscapeText(_)
EscapeText(s) ==
    IF s = <<>> THEN <<>>
    ELSE (CASE Head(s) = NL -> <<Backslash, "n">>
            [] Head(s) = TAB -> <<Backslash, "t">>
            [] Head(s) = CR -> <<Backslash, "r">>
            [] Head(s) \in {Quote, Backslash} -> <<Backslash, Head(s)>>
            [] OTHER -> <<Head(s)>>) \o EscapeText(Tail(s))

StringText(s) == <<Quote>> \o EscapeText(s) \o <<Quote>>

RECURSIVE ListText(_)
ListText(list) ==
    IF list = <<>> THEN <<>>
    ELSE IF Len(list) = 1 THEN StringText(list[1])
    ELSE StringText(list[1]) \o <<",", SP>> \o ListText(Tail(list))

\* The JSON text of a reply: {"Answer": ["...", "..."]} as the system prompt
\* asks for, or one of the other shapes.
BodyText(seed) ==
    CASE seed.kind = "answer" ->
            <<"{">> \o StringText(AnswerKey) \o <<":", SP, "[">>
            \o ListText(seed.answers) \o <<"]", "}">>
      [] seed.kind = "noanswer" -> <<"{", "}">>
      [] seed.kind = "array" -> <<"[", "]">>
      [] seed.kind = "truncated" ->
            <<"{">> \o StringText(AnswerKey) \o <<":", SP, "[">>
      [] OTHER -> <<"o", "k">>

\* The content before any fence: the JSON text and the whitespace around it.
PlainContent(seed) ==
    CASE seed.pad = "space" -> <<SP>> \o BodyText(seed) \o <<NL>>
      [] seed.pad = "ideographic" -> <<IDSP>> \o BodyText(seed)
      [] OTHER -> BodyText(seed)

\* content wrapped in a Markdown fence: ```json, a line break, the content,
\* a line break, ```
Wrapped(content) == FenceJson \o <<NL>> \o content \o <<NL>> \o Fence

\* completion.choices[0].message.content
Content(seed) ==
    IF seed.fence = "fenced" THEN Wrapped(PlainContent(seed))
    ELSE PlainContent(seed)

\* What chat.completions.create does: raises, or returns the content.
GatewayResponse(seed) ==
    [raises |-> seed.kind = "raise", content |-> Content(seed)]

\* ------------------------------------------------------ answer_question
\* bool(self.last_request_time): None and 0 are false.
\* (a check that never passes, so the interval is never looked at)
TruthyNever(x) == FALSE

Truthy(x) == x # NoTime /\ x # 0

\* sleep_time = self.min_interval - interval
\* (a sleep one second short)
SleepTimeShort(interval_min, interval) == interval_min - interval - 1

SleepTime(interval_min, interval) == interval_min - interval

\* self.last_request_time = time.time()
\* (the timestamp left as it was)
StampKept(old, now) == old

Stamp(old, now) == now

\* return final_answer
\* (an empty answer turned into None)
FinalResultOrNone(final_answer) ==
    IF final_answer = <<>> THEN None ELSE Some(final_answer)

FinalResult(final_answer) == Some(final_answer)

\* The lines after the gateway's reply, inside the try.
ParseAnswer(content) ==
    LET cleaned_content == CleanResponse(content)
        answer_json == JsonLoads(cleaned_content)
    IN IF ~answer_json.ok THEN Raise("JSONDecodeError")
       ELSE IF answer_json.v.t # "obj" THEN Raise("AttributeError")
       ELSE LET answer_list == DictGet(answer_json.v, AnswerKey, JArr(<<>>)) IN
            IF ~TruthyJson(answer_list) THEN Return(None)
            ELSE IF ~Joinable(answer_list) THEN Raise("TypeError")
            ELSE Return(FinalResult(Strip(Join(JoinParts(answer_list), <<NL>>))))

\* The try block.
TryBody(resp) ==
    IF resp.raises THEN Raise("APIError") ELSE ParseAnswer(resp.content)

\* except Exception: return None
\* (an except that catches json.JSONDecodeError alone)
ExceptDecodeErrorOnly(outcome) ==
    IF outcome.exc = "JSONDecodeError" THEN Return(None) ELSE outcome

ExceptClause(outcome) ==
    IF outcome.exc # "none" THEN Return(None) ELSE outcome

\* What answer_question ends with, once the gateway has replied.
AnswerOutcome(resp) == ExceptClause(TryBody(resp))

\* Each reply of the gateway with what answer_question ends with for it.
Replies(seeds) ==
    { [seed |-> seed, out |-> AnswerOutcome(GatewayResponse(seed))] : seed \in seeds }

AllReplies == Replies(Seeds)
FewReplies == Replies(FewSeeds)

\* ---------------------------------------------------- get_submit_params
\* (the two values exchanged)
SubmitParamsSwapped(submit_flag) == IF ~submit_flag THEN <<>> ELSE <<"1">>

SubmitParams(submit_flag) == IF ~submit_flag THEN <<"1">> ELSE <<>>

\* ----------------------------------------------------- judgement_select
\* The texts judgement_select is called with:
\* zhe dao ti zheng que; da an shi cuo wu de; maybe; cuo wu; bu dui; cross
Texts ==
    { <<"zhe", "dao", "ti", "zheng", "que">>,
      <<"da", "an", "shi", "cuo", "wu", "de">>,
      <<"m", "a", "y", "b", "e">>,
      <<"cuo", "wu">>,
      <<"bu", "dui">>,
      <<"cross">> }

\* The values judgement_select can return for res.
JudgementValues(true_keys, false_keys, res) ==
    IF \E i \in 1..Len(true_keys) : Contains(res, true_keys[i]) THEN {TRUE}
    ELSE IF \E i \in 1..Len(false_keys) : Contains(res, false_keys[i]) THEN {FALSE}
    ELSE BOOLEAN


\* ------------------------------------------------------------ the state
\* The threads that call the client.
Callers == {"A", "B"}
\* The one thread of the sequential use.
MainCallers == {"A"}

VARIABLES
    conf,               \* the configuration file given to __init__
    phase,              \* "new", "ready" (constructed) or "failed" (__init__ raised)
    init_exc,           \* the exception __init__ ended with
    client,             \* whether openai.OpenAI(...) was created
    min_interval,       \* self.min_interval
    submit,             \* self.submit
    true_list,          \* self.true_list
    false_list,         \* self.false_list
    last_request_time,  \* self.last_request_time
    clock,              \* time.time()
    pc,                 \* each thread's place in answer_question
    seen,               \* what each thread read in "if self.last_request_time"
    slept,              \* whether each thread's call slept
    wake,               \* when each thread's time.sleep may return
    stamp,              \* the time.time() each thread read on the line of the stamp
    after_absent,       \* whether each thread's call follows one of its own that
                        \* returned None
    ret,                \* what each thread's last call returned
    calls,              \* the answer_question calls begun
    starts,             \* the request starts recorded, in the order stored
    overlap             \* whether a stamp was stored while another thread was
                        \* between its check and its own store

vars ==
    <<conf, phase, init_exc, client, min_interval, submit, true_list, false_list,
      last_request_time, clock, pc, seen, slept, wake, stamp, after_absent, ret,
      calls, starts, overlap>>

attrs == <<conf, phase, init_exc, client, min_interval, submit, true_list, false_list>>
locals == <<seen, slept, wake, stamp, after_absent>>

\* What a call returned: the operation, its input (the gateway's reply or
\* the text), and the value (val a string or None, flag a boolean);
\* raised says answer_question let an exception out.
NoRet ==
    [op |-> "none", seed |-> NoSeed, text |-> <<>>, val |-> None,
     flag |-> FALSE, raised |-> FALSE]

\* The thread's last call was answer_question, and it has returned.
Answered(c) == ret[c].op = "answer_question"

InitWith(configs) ==
    /\ conf \in configs
    /\ phase = "new"
    /\ init_exc = "none"
    /\ client = FALSE
    /\ min_interval = 0
    /\ submit = TRUE
    /\ true_list = <<>>
    /\ false_list = <<>>
    /\ last_request_time = NoTime
    /\ clock = StartTime
    /\ pc = [c \in Callers |-> "idle"]
    /\ seen = [c \in Callers |-> NoTime]
    /\ slept = [c \in Callers |-> FALSE]
    /\ wake = [c \in Callers |-> 0]
    /\ stamp = [c \in Callers |-> 0]
    /\ after_absent = [c \in Callers |-> FALSE]
    /\ ret = [c \in Callers |-> NoRet]
    /\ calls = 0
    /\ starts = <<>>
    /\ overlap = FALSE

Init == InitWith(Configs)

\* The configurations of the two-thread use: a valid key, the interval
\* left out (1) or "2".
ConcConfigs ==
    {cf \in Configs : /\ cf.file
                      /\ cf.doubao_api_key = "key"
                      /\ cf.doubao_min_interval \in {Missing, "2"}
                      /\ cf.submit = Missing}

InitConc == InitWith(ConcConfigs)

\* ----------------------------------------------------------- the actions
\* DoubaoTiku(conf_path)
Construct ==
    /\ phase = "new"
    /\ LET r == DoInit(conf) IN
        /\ phase' = IF r.exc = "none" THEN "ready" ELSE "failed"
        /\ init_exc' = r.exc
        /\ client' = r.client
        /\ min_interval' = r.min_interval
        /\ submit' = r.submit
        /\ true_list' = IF r.exc = "none" THEN SynonymList(DefaultTrueText) ELSE <<>>
        /\ false_list' = IF r.exc = "none" THEN SynonymList(DefaultFalseText) ELSE <<>>
    /\ last_request_time' = NoTime
    /\ UNCHANGED <<conf, clock, pc, locals, ret, calls, starts, overlap>>

\* A second passes.
Tick ==
    /\ clock < MaxTime
    /\ clock' = clock + 1
    /\ UNCHANGED <<attrs, last_request_time, pc, locals, ret, calls, starts, overlap>>

\* A thread calls answer_question.
BeginCall(c) ==
    /\ phase = "ready"
    /\ pc[c] = "idle"
    /\ calls < MaxCalls
    /\ calls' = calls + 1
    /\ pc' = [pc EXCEPT ![c] = "check"]
    /\ ret' = [ret EXCEPT ![c] = NoRet]
    /\ after_absent' = [after_absent EXCEPT ![c] = Answered(c) /\ ~ret[c].val.ok]
    /\ UNCHANGED <<attrs, last_request_time, clock, seen, slept, wake, stamp, starts,
                   overlap>>

\* The same, when no other call is in progress.
BeginCallAlone(c) ==
    /\ \A d \in Callers : pc[d] = "idle"
    /\ BeginCall(c)

\* if self.last_request_time:
CheckLast(c) ==
    /\ pc[c] = "check"
    /\ seen' = [seen EXCEPT ![c] = last_request_time]
    /\ pc' = [pc EXCEPT ![c] = IF Truthy(last_request_time) THEN "interval" ELSE "stamp"]
    /\ UNCHANGED <<attrs, last_request_time, clock, slept, wake, stamp, after_absent,
                   ret, calls, starts, overlap>>

\* interval = time.time() - self.last_request_time; if it is less than
\* min_interval, time.sleep(min_interval - interval) is called.
ComputeInterval(c) ==
    /\ pc[c] = "interval"
    /\ LET interval == clock - last_request_time IN
        IF interval < min_interval
        THEN /\ wake' = [wake EXCEPT ![c] = clock + SleepTime(min_interval, interval)]
             /\ slept' = [slept EXCEPT ![c] = TRUE]
             /\ pc' = [pc EXCEPT ![c] = "sleep"]
        ELSE /\ pc' = [pc EXCEPT ![c] = "stamp"]
             /\ UNCHANGED <<wake, slept>>
    /\ UNCHANGED <<attrs, last_request_time, clock, seen, stamp, after_absent, ret,
                   calls, starts, overlap>>

\* time.sleep returns, no sooner than asked.
WakeUp(c) ==
    /\ pc[c] = "sleep"
    /\ clock >= wake[c]
    /\ pc' = [pc EXCEPT ![c] = "stamp"]
    /\ UNCHANGED <<attrs, last_request_time, clock, locals, ret, calls, starts, overlap>>

\* time.time() on the line of the stamp
ReadStamp(c) ==
    /\ pc[c] = "stamp"
    /\ stamp' = [stamp EXCEPT ![c] = clock]
    /\ pc' = [pc EXCEPT ![c] = "store"]
    /\ UNCHANGED <<attrs, last_request_time, clock, seen, slept, wake, after_absent,
                   ret, calls, starts, overlap>>

\* The threads between their check and their store.
InCheckToStore(c) == pc[c] \in {"interval", "sleep", "stamp", "store"}

\* self.last_request_time = <the time read>
StoreStamp(c) ==
    /\ pc[c] = "store"
    /\ last_request_time' = Stamp(last_request_time, stamp[c])
    /\ starts' = Append(starts, [c |-> c, t |-> stamp[c], seen |-> seen[c]])
    /\ overlap' = (overlap \/ \E d \in Callers \ {c} : InCheckToStore(d))
    /\ pc' = [pc EXCEPT ![c] = "request"]
    /\ UNCHANGED <<attrs, clock, locals, ret, calls>>

\* The gateway gives one of replies, and answer_question returns.
Respond(c, replies) ==
    /\ pc[c] = "request"
    /\ \E r \in replies :
        ret' = [ret EXCEPT ![c] =
                    [op |-> "answer_question", seed |-> r.seed, text |-> <<>>,
                     val |-> r.out.val, flag |-> FALSE,
                     raised |-> r.out.exc # "none"]]
    /\ pc' = [pc EXCEPT ![c] = "idle"]
    /\ seen' = [seen EXCEPT ![c] = NoTime]
    /\ slept' = [slept EXCEPT ![c] = FALSE]
    /\ wake' = [wake EXCEPT ![c] = 0]
    /\ stamp' = [stamp EXCEPT ![c] = 0]
    /\ after_absent' = [after_absent EXCEPT ![c] = FALSE]
    /\ UNCHANGED <<attrs, last_request_time, clock, calls, starts, overlap>>

\* get_submit_params()
GetSubmitParams(c) ==
    /\ phase = "ready"
    /\ pc[c] = "idle"
    /\ ret' = [ret EXCEPT ![c] =
                  [op |-> "get_submit_params", seed |-> NoSeed, text |-> <<>>,
                   val |-> Some(SubmitParams(submit)), flag |-> FALSE,
                   raised |-> FALSE]]
    /\ UNCHANGED <<attrs, last_request_time, clock, pc, locals, calls, starts, overlap>>

\* judgement_select(res); random.choice is either value.
JudgementSelect(c) ==
    /\ phase = "ready"
    /\ pc[c] = "idle"
    /\ \E res \in Texts : \E b \in JudgementValues(true_list, false_list, res) :
        ret' = [ret EXCEPT ![c] =
                    [op |-> "judgement_select", seed |-> NoSeed, text |-> res,
                     val |-> None, flag |-> b, raised |-> FALSE]]
    /\ UNCHANGED <<attrs, last_request_time, clock, pc, locals, calls, starts, overlap>>

\* One thread calling the client's operations, one call after another.
Next ==
    \/ Construct
    \/ Tick
    \/ \E c \in MainCallers :
        \/ BeginCallAlone(c)
        \/ CheckLast(c)
        \/ ComputeInterval(c)
        \/ WakeUp(c)
        \/ ReadStamp(c)
        \/ StoreStamp(c)
        \/ Respond(c, AllReplies)
        \/ GetSubmitParams(c)
        \/ JudgementSelect(c)

Spec == Init /\ [][Next]_vars

\* Two threads calling answer_question on the same client.
NextConc ==
    \/ Construct
    \/ Tick
    \/ \E c \in Callers :
        \/ BeginCall(c)
        \/ CheckLast(c)
        \/ ComputeInterval(c)
        \/ WakeUp(c)
        \/ ReadStamp(c)
        \/ StoreStamp(c)
        \/ Respond(c, FewReplies)

SpecConc == InitConc /\ [][NextConc]_vars


\* ------------------------------------------------------------ the claims
\* The starts recorded one after another are min_interval apart.
StartsSpaced ==
    \A i \in 1..(Len(starts) - 1) : starts[i + 1].t - starts[i].t >= min_interval

\* C1: when answer_question is called again and again, one call after
\* another, on a client with minimum interval I, each two consecutive
\* recorded request starts are at least I seconds apart, and a call that
\* finds less than I seconds elapsed sleeps until I seconds after the
\* previous recorded start.
C1_MinIntervalBetweenStarts ==
    /\ StartsSpaced
    /\ \A c \in Callers :
        pc[c] = "sleep" => wake[c] = last_request_time + min_interval

\* C1's case: a second call slept, and its request starts exactly I = 2
\* seconds after the first.
C1_Witness ==
    \E c \in MainCallers :
        /\ min_interval = 2
        /\ pc[c] = "request"
        /\ slept[c]
        /\ Len(starts) = 2
        /\ starts[2].t - starts[1].t = 2

\* The replies the claim C2 lists: the network call raising, content that
\* is not JSON once cleaned (plain text, a truncated object, and a fenced
\* content whose JSON text follows an ideographic space, which the cleaning
\* leaves in front of it), JSON without an Answer field, an empty Answer.
FailureReply(seed) ==
    \/ seed.kind \in {"raise", "text", "truncated", "noanswer", "array"}
    \/ seed.kind = "answer" /\ seed.answers = <<>>
    \/ seed.fence = "fenced" /\ seed.pad = "ideographic"

\* C2: answer_question never lets an exception out, and returns None when
\* the network call raises, when the cleaned content is not valid JSON,
\* when the JSON has no Answer field and when the Answer list is empty.
C2_FailuresReturnNone ==
    \A c \in Callers :
        Answered(c) =>
            /\ ~ret[c].raised
            /\ FailureReply(ret[c].seed) => ret[c].val = None

\* C2's case: a fenced reply that is JSON but no object (so it has no
\* Answer field) has returned None, and no exception came out.
C2_Witness ==
    \E c \in Callers :
        /\ Answered(c)
        /\ ret[c].seed.kind = "array"
        /\ ret[c].seed.fence = "fenced"
        /\ ret[c].val = None
        /\ ~ret[c].raised

\* The replies the claim C3 is about: a JSON object with a non-empty Answer
\* list of strings, not wrapped in a fence.
PlainAnswerReply(seed) ==
    /\ seed.kind = "answer"
    /\ seed.fence = "none"
    /\ seed.answers # <<>>

\* A string with the two fence markers deleted, as _clean_response deletes
\* them from the content.
WithoutMarkers(s) == Replace(Replace(s, FenceJson), Fence)

\* The strings of a list one after another, a line break between each two.
RECURSIVE Lines(_)
Lines(list) ==
    IF Len(list) <= 1 THEN (IF list = <<>> THEN <<>> ELSE list[1])
    ELSE Lines(SubSeq(list, 1, Len(list) - 1)) \o <<NL>> \o list[Len(list)]

\* C3 as stated: for a JSON object with a non-empty Answer list of strings,
\* answer_question returns the strings joined in order with line breaks,
\* stripped.
C3_JoinedAnswers ==
    \A c \in Callers :
        Answered(c) /\ PlainAnswerReply(ret[c].seed) =>
            ret[c].val = Some(Strip(Lines(ret[c].seed.answers)))

\* C3, amended: the strings are joined in order with line breaks and
\* stripped after every fence marker inside them is deleted (as they stand
\* when they hold no marker).
C3_JoinedAfterMarkersDeleted ==
    \A c \in Callers :
        Answered(c) /\ PlainAnswerReply(ret[c].seed) =>
            LET cleaned == [i \in 1..Len(ret[c].seed.answers) |->
                               WithoutMarkers(ret[c].seed.answers[i])]
            IN /\ ret[c].val = Some(Strip(Lines(cleaned)))
               /\ (cleaned = ret[c].seed.answers =>
                      ret[c].val = Some(Strip(Lines(ret[c].seed.answers))))

\* C3's case: {"Answer": ["a", "b "]} has returned "a\nb".
C3_Witness ==
    \E c \in Callers :
        /\ Answered(c)
        /\ ret[c].seed.kind = "answer"
        /\ ret[c].seed.fence = "none"
        /\ ret[c].seed.answers = << <<"a">>, <<"b", SP>> >>
        /\ ret[c].val = Some(<<"a", NL, "b">>)

\* C4: a reply whose content is wrapped in a Markdown fence gives what the
\* same content gives without the fence.
C4_FenceChangesNothing ==
    \A c \in Callers :
        Answered(c) /\ ret[c].seed.fence = "fenced" =>
            ret[c].val =
                AnswerOutcome(GatewayResponse([ret[c].seed EXCEPT !.fence = "none"])).val

\* C5: with the default lists, judgement_select of "da an shi cuo wu de"
\* (the answer is wrong: it holds the false synonym "cuo wu" and, inside
\* it, the true synonym "shi") returns False.
C5_FalseSynonymGivesFalse ==
    \A c \in Callers :
        /\ ret[c].op = "judgement_select"
        /\ ret[c].text = <<"da", "an", "shi", "cuo", "wu", "de">>
        => ret[c].flag = FALSE

\* C6: with doubao_api_key missing or empty, construction ends with an
\* exception and openai.OpenAI is never created, so no call is ever made
\* and no request is ever started.
C6_NoClientWithoutKey ==
    conf.doubao_api_key \in {Missing, ""} =>
        /\ phase # "ready"
        /\ ~client
        /\ calls = 0
        /\ starts = <<>>
        /\ phase = "failed" => init_exc # "none"

\* C6's case: a readable file with an empty key, and construction has
\* failed with ValueError.
C6_Witness ==
    /\ conf.file
    /\ conf.doubao_api_key = ""
    /\ conf.doubao_min_interval = "2"
    /\ phase = "failed"
    /\ init_exc = "ValueError"

\* What get_submit_params has returned is "1" exactly when submit is
\* configured false, "" exactly when it is configured true (or left out).
C7_Value ==
    \A c \in Callers :
        ret[c].op = "get_submit_params" =>
            /\ ret[c].val = Some(<<"1">>) <=> conf.submit = "false"
            /\ ret[c].val = Some(<<>>) <=> conf.submit \in {Missing, "yes"}

\* A step in which get_submit_params returns changes neither the
\* configuration nor last_request_time.
C7_Step ==
    (\E c \in Callers : /\ ret'[c].op = "get_submit_params"
                        /\ ret'[c] # ret[c])
        => UNCHANGED <<attrs, last_request_time, starts>>

\* C7: get_submit_params returns "1" exactly when auto-submit is configured
\* false and "" exactly when it is configured true, and calling it changes
\* neither the configuration nor last_request_time.
C7_SubmitParams == []C7_Value /\ [][C7_Step]_vars

\* C7's case: get_submit_params has returned "1" after an answer_question
\* call on the same client.
C7_Witness ==
    \E c \in Callers :
        /\ ret[c].op = "get_submit_params"
        /\ ret[c].val = Some(<<"1">>)
        /\ calls >= 1
        /\ last_request_time # NoTime

\* C8: with two threads calling at once the check, sleep and store of
\* last_request_time are unprotected.  Request starts closer than the
\* minimum interval happen, and they happen only when a stamp was stored
\* while another thread was between its check and its own store.
C8_SpacedUnlessOverlap == ~overlap => StartsSpaced

\* C8's case: two threads read the same previous timestamp (or none) and
\* started their requests less than the minimum interval apart.
C8_Witness ==
    \E i, j \in 1..Len(starts) :
        /\ i < j
        /\ starts[i].c # starts[j].c
        /\ starts[i].seen = starts[j].seen
        /\ starts[j].t - starts[i].t < min_interval
        /\ starts[i].t - starts[j].t < min_interval

\* Once a call has stored its stamp, last_request_time is the time it read
\* before the network call, whatever the call returns.
C9_Stamped ==
    \A c \in MainCallers :
        /\ pc[c] = "request" => last_request_time = stamp[c]
        /\ pc[c] = "request" \/ (Answered(c) /\ pc[c] = "idle") =>
            /\ last_request_time # NoTime
            /\ last_request_time = starts[Len(starts)].t
            /\ last_request_time <= clock
            /\ Len(starts) = calls

\* last_request_time is never reset and never decreases.
C9_Step ==
    /\ last_request_time # NoTime => last_request_time' # NoTime
    /\ last_request_time' >= last_request_time

\* C9: every answer_question call sets last_request_time to the current
\* time before the network call, whether it then succeeds or returns None;
\* the timestamp is never reset to None and never decreases, so a failed
\* call rate-limits the next one too.
C9_TimestampKept == []C9_Stamped /\ [][C9_Step]_vars /\ []StartsSpaced

\* C9's case: the call after one that returned None slept, and stored its
\* own stamp.
C9_Witness ==
    \E c \in MainCallers :
        /\ pc[c] = "request"
        /\ after_absent[c]
        /\ slept[c]
        /\ last_request_time = stamp[c]
        /\ last_request_time > starts[1].t

\* C10 as stated: a result that is not None is a non-empty string.
C10_PresentIsNonEmpty ==
    \A c \in Callers :
        Answered(c) /\ ret[c].val.ok => ret[c].val.s # <<>>

\* C10, amended: a result that is not None is a string with no whitespace
\* at either end, and it may be empty: a non-empty Answer list that joins
\* and strips to the empty string gives "", not None.
C10_PresentIsStripped ==
    \A c \in Callers :
        Answered(c) =>
            /\ ret[c].val.ok =>
                /\ ret[c].val.s = <<>> \/ ret[c].val.s[1] \notin PyWhitespace
                /\ ret[c].val.s = <<>>
                       \/ ret[c].val.s[Len(ret[c].val.s)] \notin PyWhitespace
            /\ (/\ PlainAnswerReply(ret[c].seed)
                /\ \A i \in 1..Len(ret[c].seed.answers) :
                       \A k \in 1..Len(ret[c].seed.answers[i]) :
                           ret[c].seed.answers[i][k] \in PyWhitespace)
                => ret[c].val = Some(<<>>)

\* C10's case: {"Answer": [""]} has returned the empty string.
C10_Witness ==
    \E c \in Callers :
        /\ Answered(c)
        /\ ret[c].seed.answers = << <<>> >>
        /\ ret[c].seed.fence = "none"
        /\ ret[c].val = Some(<<>>)

====
